---- MODULE Spec2Model ----
(***************************************************************************)
(* The capability registry of the Linear MCP server (src/src/registry.ts)  *)
(* as a state machine: the three registries, the register* operations, the *)
(* lookups and enumerations, and readResource with its one suspension      *)
(* point (the await on the resource handler), and the request handlers of  *)
(* the dispatch adapter (server.ts) for tool-call, resource-read and       *)
(* prompt-get requests.                                                    *)
(*                                                                         *)
(* The registries are plain JavaScript objects used as string-keyed maps,  *)
(* so a map is modelled as a JavaScript object: its own properties plus    *)
(* its prototype, with the language's [[Get]] and [[Set]] (strict mode:    *)
(* the module is an ES module).                                            *)
(***************************************************************************)
EXTENDS Integers, Sequences, FiniteSets, TLC

(***************************************************************************)
(* Bounds.                                                                 *)
(***************************************************************************)
\* number of register* calls in a run
MaxRegs == 2

(***************************************************************************)
(* JavaScript values.                                                      *)
(***************************************************************************)
Undefined == [t |-> "undefined"]
Str(s) == [t |-> "string", v |-> s]
Bool(b) == [t |-> "boolean", v |-> b]
\* an Error instance (Error, TypeError, SyntaxError ...) with its message
ErrorObj(m) == [t |-> "Error", message |-> m]
\* a thrown plain object { message: m }: it is not an instance of Error
PlainObj(m) == [t |-> "plainObject", message |-> m]
\* Object.prototype, the Object constructor and the Function constructor
ObjectPrototype == [t |-> "Object.prototype"]
ObjectCtor == [t |-> "builtin", name |-> "Object"]
FunctionCtor == [t |-> "builtin", name |-> "Function"]

Null == [t |-> "null"]

\* ToBoolean, as used by !x and x || y
Truthy(x) ==
  CASE x.t = "undefined" -> FALSE
    [] x.t = "null" -> FALSE
    [] x.t = "string" -> x.v # ""
    [] x.t = "boolean" -> x.v
    [] OTHER -> TRUE

\* typeof x === "function"
Callable(x) == x.t \in {"fn", "builtin"}

(***************************************************************************)
(* Keys: two ordinary keys and three strings that name properties every    *)
(* JavaScript object or function already has.                              *)
(***************************************************************************)
Keys == {"res://a", "res://b", "constructor", "__proto__", "name"}

Kinds == {"tool", "prompt", "resource"}

\* the descriptor and the handler passed to the n-th register call
\* form: which key field the descriptor carries (name | uri | uriTemplate)
Descriptor(kind, form, k, n) ==
  [t |-> "desc", kind |-> kind, form |-> form, key |-> k, reg |-> n]
Handler(kind, n) == [t |-> "fn", kind |-> kind, reg |-> n]

(***************************************************************************)
(* A registry map: Record<string, T> created by the literal {}.            *)
(***************************************************************************)
\* own: the own properties, a function from the keys that have one
EmptyObject == [own |-> [k \in {} |-> Undefined], proto |-> ObjectPrototype]

\* own enumerable string keys (Object.keys)
OwnKeys(o) == DOMAIN o.own

\* property k as found on the prototype object p
ProtoGet(p, k) ==
  CASE p.t = "desc" ->
         \* a descriptor has its own name (a non-empty string)
         IF k = "name" THEN Str("descriptor name")
         ELSE IF k = "constructor" THEN ObjectCtor
         ELSE Undefined
    [] p.t = "fn" ->
         \* a function has its own read-only name
         IF k = "name" THEN Str("handler")
         ELSE IF k = "constructor" THEN FunctionCtor
         ELSE Undefined
    [] OTHER ->
         IF k = "constructor" THEN ObjectCtor ELSE Undefined

\* o[k]
Get(o, k) ==
  IF k = "__proto__" THEN o.proto
  ELSE IF k \in OwnKeys(o) THEN o.own[k]
  ELSE ProtoGet(o.proto, k)

\* whether o[k] = v completes; in strict mode an assignment to a property
\* that is inherited read-only (a function's name) throws a TypeError
CanSet(o, k) ==
  \/ k = "__proto__"
  \/ k \in OwnKeys(o)
  \/ ~(o.proto.t = "fn" /\ k = "name")

\* o after o[k] = v; "__proto__" is the accessor of Object.prototype, which
\* replaces the prototype when v is an object and never adds a property
Set(o, k, v) ==
  IF k = "__proto__"
  THEN IF v.t \in {"desc", "fn"} THEN [o EXCEPT !.proto = v] ELSE o
  ELSE [o EXCEPT !.own = [j \in OwnKeys(o) \cup {k} |->
                             IF j = k THEN v ELSE o.own[j]]]

\* Object.values(o), as a set
Values(o) == {o.own[k] : k \in OwnKeys(o)}

(***************************************************************************)
(* State.                                                                  *)
(***************************************************************************)
VARIABLES
  tools, toolHandlers,          \* toolRegistry
  prompts, promptHandlers,      \* promptRegistry
  resources, resourceHandlers,  \* resourceRegistry
  regCount,                     \* register* calls made so far
  lastReg,                      \* the last register* call and how it ended
  latest,                       \* per kind and key, the last register* call
                                \* that returned, a history variable
  reads,                        \* the readResource calls of the run
  requests,                     \* the requests handled by the dispatch adapter
  payloads,                     \* the payload objects that handlers return
                                \* more than once
  observed,                     \* per readResource call, when it began and
                                \* ended, a history variable
  replaced                      \* what the last registerResource call
                                \* overwrote, a history variable

registryVars ==
  <<tools, toolHandlers, prompts, promptHandlers, resources, resourceHandlers>>
vars ==
  <<tools, toolHandlers, prompts, promptHandlers, resources, resourceHandlers,
    regCount, lastReg, latest, reads, requests, payloads, observed, replaced>>
\* the variables that only the actions on shared payloads and on overlapping
\* calls write
sharedVars == <<payloads, observed, replaced>>

NoReg == [kind |-> "none"]

(***************************************************************************)
(* Registration.  Each register* function is two assignments, the          *)
(* descriptor map first and the handler map second, and a return; a        *)
(* TypeError thrown by the second assignment leaves the first in place.    *)
(***************************************************************************)
\* the two maps after maps.d[k] = d; maps.h[k] = h, and whether it threw
RegisterInto(descMap, handlerMap, k, d, h) ==
  IF ~CanSet(descMap, k)
  THEN [descs |-> descMap, handlers |-> handlerMap, threw |-> TRUE]
  ELSE IF ~CanSet(handlerMap, k)
  THEN [descs |-> Set(descMap, k, d), handlers |-> handlerMap, threw |-> TRUE]
  ELSE [descs |-> Set(descMap, k, d), handlers |-> Set(handlerMap, k, h),
        threw |-> FALSE]

\* latest after the n-th register* call, of this kind and for key k
Completed(kind, k, n, threw) ==
  IF threw THEN latest
  ELSE [p \in DOMAIN latest \cup {<<kind, k>>} |->
          IF p = <<kind, k>> THEN n ELSE latest[p]]

\* the last register* call of the kind that returned for key k; 0: none
LatestReg(kind, k) ==
  IF <<kind, k>> \in DOMAIN latest THEN latest[<<kind, k>>] ELSE 0

\* what the caller of register* sees: the descriptor returned, or the throw
RegOutcome(kind, k, n, d, threw) ==
  [kind |-> kind, key |-> k, reg |-> n, threw |-> threw,
   returned |-> IF threw THEN Undefined ELSE d]

registerTool(k) ==
  /\ regCount < MaxRegs
  /\ LET n == regCount + 1
         tool == Descriptor("tool", "name", k, n)
         handler == Handler("tool", n)
         r == RegisterInto(tools, toolHandlers, tool.key, tool, handler)
     IN /\ tools' = r.descs
        /\ toolHandlers' = r.handlers
        /\ regCount' = n
        /\ lastReg' = RegOutcome("tool", k, n, tool, r.threw)
        /\ latest' = Completed("tool", k, n, r.threw)
  /\ UNCHANGED <<prompts, promptHandlers, resources, resourceHandlers, reads>>

\* a variant that stores the prompt's handler in the tool registry
registerPromptIntoToolHandlers(k) ==
  /\ regCount < MaxRegs
  /\ LET n == regCount + 1
         prompt == Descriptor("prompt", "name", k, n)
         handler == Handler("prompt", n)
         r == RegisterInto(prompts, toolHandlers, prompt.key, prompt, handler)
     IN /\ prompts' = r.descs
        /\ toolHandlers' = r.handlers
        /\ regCount' = n
        /\ lastReg' = RegOutcome("prompt", k, n, prompt, r.threw)
        /\ latest' = Completed("prompt", k, n, r.threw)
  /\ UNCHANGED <<tools, promptHandlers, resources, resourceHandlers, reads>>

registerPrompt(k) ==
  /\ regCount < MaxRegs
  /\ LET n == regCount + 1
         prompt == Descriptor("prompt", "name", k, n)
         handler == Handler("prompt", n)
         r == RegisterInto(prompts, promptHandlers, prompt.key, prompt, handler)
     IN /\ prompts' = r.descs
        /\ promptHandlers' = r.handlers
        /\ regCount' = n
        /\ lastReg' = RegOutcome("prompt", k, n, prompt, r.threw)
        /\ latest' = Completed("prompt", k, n, r.threw)
  /\ UNCHANGED <<tools, toolHandlers, resources, resourceHandlers, reads>>

\* a variant in which suspended readResource calls hold the registry's
\* current handler instead of the one they resolved
registerResourceRebinds(form, k) ==
  /\ regCount < MaxRegs
  /\ LET n == regCount + 1
         resource == Descriptor("resource", form, k, n)
         handler == Handler("resource", n)
         key == resource.key
         r == RegisterInto(resources, resourceHandlers, key, resource, handler)
     IN /\ resources' = r.descs
        /\ resourceHandlers' = r.handlers
        /\ regCount' = n
        /\ lastReg' = RegOutcome("resource", k, n, resource, r.threw)
        /\ latest' = Completed("resource", k, n, r.threw)
        /\ reads' = [x \in DOMAIN reads |->
                       IF reads[x].pc = "awaiting"
                       THEN [reads[x] EXCEPT !.handler = handler]
                       ELSE reads[x]]
  /\ UNCHANGED <<tools, toolHandlers, prompts, promptHandlers>>

\* a variant that keeps templates in a key space of their own
registerResourceKeyedByForm(form, k) ==
  /\ regCount < MaxRegs
  /\ LET n == regCount + 1
         resource == Descriptor("resource", form, k, n)
         handler == Handler("resource", n)
         key == IF form = "uriTemplate" THEN "template " \o resource.key
                ELSE resource.key
         r == RegisterInto(resources, resourceHandlers, key, resource, handler)
     IN /\ resources' = r.descs
        /\ resourceHandlers' = r.handlers
        /\ regCount' = n
        /\ lastReg' = RegOutcome("resource", k, n, resource, r.threw)
        /\ latest' = Completed("resource", k, n, r.threw)
  /\ UNCHANGED <<tools, toolHandlers, prompts, promptHandlers, reads>>

\* form is "uri" for an McpResource and "uriTemplate" for an
\* McpResourceTemplate; the key is the value of that field
registerResource(form, k) ==
  /\ regCount < MaxRegs
  /\ LET n == regCount + 1
         resource == Descriptor("resource", form, k, n)
         handler == Handler("resource", n)
         key == resource.key
         r == RegisterInto(resources, resourceHandlers, key, resource, handler)
     IN /\ resources' = r.descs
        /\ resourceHandlers' = r.handlers
        /\ regCount' = n
        /\ lastReg' = RegOutcome("resource", k, n, resource, r.threw)
        /\ latest' = Completed("resource", k, n, r.threw)
  /\ UNCHANGED <<tools, toolHandlers, prompts, promptHandlers, reads>>

(***************************************************************************)
(* Lookups and enumerations.                                               *)
(***************************************************************************)
getAllTools == Values(tools)
getToolHandler(name) == Get(toolHandlers, name)
getAllPrompts == Values(prompts)
getPromptByName(name) == Get(prompts, name)
getPromptHandler(name) == Get(promptHandlers, name)
getAllResources == {d \in Values(resources) : d.form = "uri"}
getResourceTemplates == {d \in Values(resources) : d.form = "uriTemplate"}
getResourceByUri(uri) == Get(resources, uri)

\* whether the concrete uri is an expansion of the uriTemplate string T, for
\* the strings of the runs: "res://a" expands "res://{id}" with id = a
Matches(uri, T) == T = "res://{id}" /\ uri = "res://a"

\* a variant that falls back on a registered template whose pattern the uri
\* matches
getResourceHandlerMatchingTemplates(uri) ==
  IF Truthy(Get(resourceHandlers, uri)) THEN Get(resourceHandlers, uri)
  ELSE IF \E T \in OwnKeys(resourceHandlers) : Matches(uri, T)
  THEN resourceHandlers.own[CHOOSE T \in OwnKeys(resourceHandlers) :
                              Matches(uri, T)]
  ELSE Undefined

getResourceHandler(uri) == Get(resourceHandlers, uri)
\* the tool descriptor under a name; the source has no such function and
\* its tests read getToolRegistry().tools[name]
getToolByName(name) == Get(tools, name)

(***************************************************************************)
(* readResource.                                                           *)
(***************************************************************************)
\* the readResource calls of a run
ReadIds == {"r1", "r2"}

\* the args parameter: omitted, or an object of the caller
ArgsOmitted == Undefined
ArgsEmpty == [t |-> "object", by |-> "caller", keys |-> {}]
ArgsA1 == [t |-> "object", by |-> "caller", keys |-> {"a"}]
ArgsGiven == {ArgsEmpty, ArgsA1}
\* the {} that readResource creates itself
FreshEmptyArgs == [t |-> "object", by |-> "readResource", keys |-> {}]

\* o.f for a property the model tracks; undefined for any other
Field(o, f) == IF o.t = "object" /\ f \in DOMAIN o THEN o[f] ELSE Undefined

\* what a handler can hand back as response.data: an envelope in which each
\* of uri, text and blob is missing, empty or set; nothing at all; a string
Envelope(u, x, b) == [t |-> "object", uri |-> u, text |-> x, blob |-> b]
Envelopes ==
  {Envelope(u, x, b) : u \in {Undefined, Str(""), Str("own://uri")},
                       x \in {Undefined, Str(""), Str("hello")},
                       b \in {Undefined, Str("AAEC")}}
Payloads == Envelopes \cup {Undefined, Str("raw")}

Response(e, m, d) ==
  [t |-> "object", isError |-> e, errorMessage |-> m, data |-> d]
OkResponses == {Response(e, Undefined, d) : e \in {Undefined, Bool(FALSE)},
                                             d \in Payloads}
ErrorResponses ==
  {Response(Bool(TRUE), m, d) :
     m \in {Undefined, Str(""), Str("Simulated handler error")},
     d \in {Undefined, Envelope(Undefined, Str("hello"), Undefined)}}
\* a handler may also resolve to nothing
Responses == OkResponses \cup ErrorResponses \cup {Undefined}

\* what a handler can throw or reject with
Thrown ==
  {ErrorObj("Unhandled exception"), ErrorObj(""), Str("String exception"),
   PlainObj("plain message")}

\* how one invocation of a registered handler ends
Outcome(how, v) == [how |-> how, value |-> v]
AsyncOutcomes ==
  {Outcome("resolve", v) : v \in Responses}
    \cup {Outcome("reject", v) : v \in Thrown}
SyncThrows == {Outcome("throw", v) : v \in Thrown}

\* the value readResource resolves to
Result(isError, errorMessage, content) ==
  [isError |-> isError, errorMessage |-> errorMessage, content |-> content]

\* how a block of statements ends: with a return value or with a throw
Return(v) == [kind |-> "return", value |-> v]
Throw(e) == [kind |-> "throw", value |-> e]
TypeError(m) == ErrorObj(m)

\* a variant that hands args on as it came
PassedArgsAsGiven(args) == args

\* args || {}
PassedArgs(args) == IF Truthy(args) THEN args ELSE FreshEmptyArgs

\* a variant that always answers with the generic message
HandlerErrorMessageGenericOnly(response, uri) ==
  Str("Error reading resource: " \o uri)

\* response.errorMessage || `Error reading resource: ${uri}`
HandlerErrorMessage(response, uri) ==
  IF Truthy(Field(response, "errorMessage"))
  THEN Field(response, "errorMessage")
  ELSE Str("Error reading resource: " \o uri)

\* a variant that stamps a fixed placeholder
StampUriPlaceholder(content, uri) ==
  IF ~Truthy(content.uri) THEN [content EXCEPT !.uri = Str("resource://unknown")]
  ELSE content

\* a variant that leaves the envelope as the handler made it
StampUriNever(content, uri) == content

\* if (!content.uri) { content.uri = uri; }
StampUri(content, uri) ==
  IF ~Truthy(content.uri) THEN [content EXCEPT !.uri = Str(uri)] ELSE content

\* a variant that has lost the first negation
MissingTextAndBlobNegationLost(content) ==
  Truthy(content.text) /\ ~Truthy(content.blob)

\* !content.text && !content.blob
MissingTextAndBlob(content) == ~Truthy(content.text) /\ ~Truthy(content.blob)

\* the statements of the try block after the await, for the value the
\* handler's promise was fulfilled with
AfterAwait(uri, response) ==
  IF response.t # "object"
  THEN Throw(TypeError("Cannot read properties of undefined (reading 'isError')"))
  ELSE IF Truthy(Field(response, "isError"))
  THEN Return(Result(TRUE, HandlerErrorMessage(response, uri), Undefined))
  ELSE LET content == Field(response, "data") IN
    IF content.t = "undefined"
    THEN Throw(TypeError("Cannot read properties of undefined (reading 'uri')"))
    ELSE IF content.t # "object"
    THEN \* content.uri = uri on a primitive throws in strict mode
         Throw(TypeError("Cannot create property 'uri' on string"))
    ELSE LET stamped == StampUri(content, uri)
         IN IF MissingTextAndBlob(stamped)
            THEN Return(Result(TRUE,
                   Str("Invalid resource content: missing both text and blob for "
                       \o uri),
                   Undefined))
            ELSE Return(Result(FALSE, Undefined, stamped))

\* the try block from the handler's outcome on: a synchronous throw of the
\* call and a rejection of the awaited promise both leave the block
TryBlock(uri, outcome) ==
  IF outcome.how = "resolve"
  THEN AfterAwait(uri, outcome.value)
  ELSE Throw(outcome.value)

\* a variant that takes the message of anything that has one
CatchAnyMessage(uri, error) ==
  Result(TRUE,
         IF error.t \in {"Error", "plainObject"} THEN Str(error.message)
         ELSE Str("Unknown error reading resource: " \o uri),
         Undefined)

\* the catch block
Catch(uri, error) ==
  Result(TRUE,
         IF error.t = "Error" THEN Str(error.message)
         ELSE Str("Unknown error reading resource: " \o uri),
         Undefined)

\* a variant without the catch clause
TryWithoutCatch(uri, block) == block

\* try { ... } catch (error) { return ... }
TryCatch(uri, block) ==
  IF block.kind = "throw" THEN Return(Catch(uri, block.value)) ELSE block

\* a built-in reached through the prototype chain, called as handler(passed):
\* Object(x) returns the object x; Function(x) compiles String(x) and throws
BuiltinOutcome(handler, passed) ==
  IF handler = ObjectCtor
  THEN Outcome("resolve", passed)
  ELSE Outcome("throw", ErrorObj("Unexpected identifier 'Object'"))

None == [t |-> "none"]
IdleRead ==
  [pc |-> "idle", uri |-> "", args |-> Undefined, regAtCall |-> 0,
   handler |-> Undefined, calls |-> 0, passed |-> None, outcome |-> None,
   settled |-> "pending", result |-> None]

\* a call that has ended: the promise of readResource is fulfilled with the
\* value returned, or rejected with what was thrown
EndedRead(rd, calls, passed, outcome, completion) ==
  [rd EXCEPT !.pc = "done", !.calls = calls, !.passed = passed,
             !.outcome = outcome,
             !.settled = IF completion.kind = "return" THEN "fulfilled"
                         ELSE "rejected",
             !.result = completion.value]

\* a handler returns a promise: the call goes on to the await
ReturnsPromise == Outcome("promise", Undefined)

\* readResource(uri, args) up to its await, or to its end when it does not
\* get that far; sync is how the call handler(args || {}) itself ends
readResourceCall(r, uri, args, sync) ==
  /\ reads[r].pc = "idle"
  /\ LET handler == getResourceHandler(uri)
         passed == PassedArgs(args)
         rd == [reads[r] EXCEPT !.uri = uri, !.args = args, !.handler = handler,
                                !.regAtCall = LatestReg("resource", uri)]
     IN reads' = [reads EXCEPT ![r] =
          IF ~Truthy(handler)
          THEN EndedRead(rd, 0, None, None,
                 Return(Result(TRUE, Str("Resource not found: " \o uri), Undefined)))
          ELSE IF ~Callable(handler)
          THEN EndedRead(rd, 0, None, None,
                 TryCatch(uri, Throw(TypeError("handler is not a function"))))
          ELSE LET now == IF handler.t = "builtin"
                          THEN BuiltinOutcome(handler, passed)
                          ELSE sync
               IN IF now.how = "throw"
                  THEN EndedRead(rd, 1, passed, now,
                                 TryCatch(uri, TryBlock(uri, now)))
                  ELSE [rd EXCEPT !.pc = "awaiting", !.calls = 1,
                                  !.passed = passed,
                                  !.outcome = IF handler.t = "builtin"
                                              THEN now ELSE None]]
  /\ UNCHANGED <<registryVars, regCount, lastReg, latest>>

\* a variant that looks the handler up again after the await
handlerSettlesLooksUpAgain(r, o) ==
  /\ reads[r].pc = "awaiting"
  /\ LET rd == [reads[r] EXCEPT !.handler = getResourceHandler(reads[r].uri)]
         outcome == IF rd.handler.t = "builtin" THEN rd.outcome ELSE o
     IN reads' = [reads EXCEPT ![r] =
          EndedRead(rd, rd.calls, rd.passed, outcome,
                    TryCatch(rd.uri, TryBlock(rd.uri, outcome)))]
  /\ UNCHANGED <<registryVars, regCount, lastReg, latest>>

\* the handler's promise settles and readResource runs to its end
handlerSettles(r, o) ==
  /\ reads[r].pc = "awaiting"
  /\ LET rd == reads[r]
         outcome == IF rd.handler.t = "builtin" THEN rd.outcome ELSE o
     IN reads' = [reads EXCEPT ![r] =
          EndedRead(rd, rd.calls, rd.passed, outcome,
                    TryCatch(rd.uri, TryBlock(rd.uri, outcome)))]
  /\ UNCHANGED <<registryVars, regCount, lastReg, latest>>

(***************************************************************************)
(* Resource handlers that read a parameter from their argument             *)
(* (resources/linear-team.ts, resources/linear-milestone.ts).  Each is an  *)
(* async function whose body is one try/catch, so its promise is always    *)
(* fulfilled, with an error response when the parameter is missing.        *)
(***************************************************************************)
\* the arguments that carry the parameters these handlers read
ArgsRequired ==
  [t |-> "object", by |-> "caller", keys |-> {"teamId", "uri"}]

\* args[name], a non-empty string when the mapping has the key
Arg(args, name) == IF name \in args.keys THEN Str("value") ELSE Undefined

\* what the promise of linearTeamResourceHandler(args) can be fulfilled with
linearTeamResourceHandler(args) ==
  IF ~Truthy(Arg(args, "teamId"))
  THEN {Response(Bool(TRUE), Str("Invalid team ID"), Null)}
  ELSE {Response(Bool(TRUE), Str("Team with ID value not found"), Null),
        Response(Bool(FALSE), Undefined,
                 Envelope(Undefined, Undefined, Undefined)),
        Response(Bool(TRUE), Str("Error: request failed"), Null)}

\* what the promise of linearMilestoneResourceHandler(args) can be fulfilled
\* with; args is an object here, so typeof args === 'string' is false
linearMilestoneResourceHandler(args) ==
  IF ~Truthy(Arg(args, "uri"))
  THEN {Response(Bool(TRUE), Str("No URI provided"), Null)}
  ELSE {Response(Bool(TRUE),
                 Str("Invalid milestone URI: value. Expected format: linear-milestone:///{milestoneId}"),
                 Null),
        Response(Bool(TRUE), Str("Milestone with ID value not found"), Null),
        Response(Undefined, Undefined,
                 Envelope(Undefined, Undefined, Undefined))}

RequiringHandlers == {"linearTeam", "linearMilestone"}
RequiringHandlerResponses(which, args) ==
  IF which = "linearTeam" THEN linearTeamResourceHandler(args)
  ELSE linearMilestoneResourceHandler(args)
\* the response of the handler to a missing parameter
MissingParameter(which) ==
  Response(Bool(TRUE),
           Str(IF which = "linearTeam" THEN "Invalid team ID"
               ELSE "No URI provided"),
           Null)

\* the registered handler is one of these two: its promise is fulfilled
\* with what it computes from the mapping it was invoked with
requiringHandlerSettles(r, which) ==
  /\ reads[r].pc = "awaiting"
  /\ reads[r].handler.t = "fn"
  /\ \E response \in RequiringHandlerResponses(which, reads[r].passed) :
       handlerSettles(r, Outcome("resolve", response))

(***************************************************************************)
(* The dispatch adapter (server.ts): the request handlers that the server  *)
(* installs for tool-call, resource-read and prompt-get requests.  Each is *)
(* an async function, so a request ends with a promise that is fulfilled   *)
(* with the response returned or rejected with what was thrown.            *)
(***************************************************************************)
\* the requests of a run
RequestIds == {"q1"}

\* String(x)
StringOf(x) ==
  CASE x.t = "string" -> x.v
    [] x.t = "undefined" -> "undefined"
    [] x.t = "Error" ->
         IF x.message = "" THEN "Error" ELSE "Error: " \o x.message
    [] OTHER -> "[object Object]"

\* error instanceof Error ? error.message : String(error)
ErrorText(error) ==
  IF error.t = "Error" THEN error.message ELSE StringOf(error)

\* the {} that a request handler creates itself
FreshEmptyObject == [t |-> "object", by |-> "adapter", keys |-> {}]

\* a variant that hands the request's arguments on as they came
AdapterArgsAsGiven(args) == args

\* args || {}
AdapterArgs(args) == IF Truthy(args) THEN args ELSE FreshEmptyObject

\* an array
Array(items) == [t |-> "array", items |-> items]

\* a tool response { content: [{ type: "text", text }], isError }
TextItem(text) == [type |-> "text", text |-> text]
ToolResult(text, isError) ==
  [t |-> "object", content |-> Array(<<TextItem(text)>>), isError |-> isError]

\* what a tool handler's promise can be fulfilled with: a result without
\* error flag, a result the handler flagged as an error itself, nothing
ToolResults ==
  {ToolResult("tool output", Undefined),
   ToolResult("failed inside the tool", Bool(TRUE)),
   Undefined}
ToolOutcomes ==
  {Outcome("resolve", v) : v \in ToolResults}
    \cup {Outcome("reject", v) : v \in Thrown}

\* the catch block of the tool-call handler
ToolCatch(error) == ToolResult("Error: " \o ErrorText(error), Bool(TRUE))

\* a variant without the catch clause
ToolTryWithoutCatch(block) == block

\* try { ... } catch (error) { return ... } of the tool-call handler
ToolTryCatch(block) ==
  IF block.kind = "throw" THEN Return(ToolCatch(block.value)) ELSE block

\* what a prompt handler can return: an array of messages
PromptMessage(text) ==
  [role |-> "user", content |-> [type |-> "text", text |-> text]]
PromptMessages == {Array(<<>>), Array(<<PromptMessage("prompt output")>>)}
PromptOutcomes == {Outcome("return", m) : m \in PromptMessages} \cup SyncThrows

\* the responses of the prompt-get handler
PromptResponse(messages) == [t |-> "object", messages |-> messages]
PromptFailure(errorMessage) ==
  [t |-> "object", messages |-> Array(<<>>), isError |-> Bool(TRUE),
   errorMessage |-> Str(errorMessage)]

\* the catch block of the prompt-get handler
PromptCatch(error) ==
  PromptFailure("Error generating prompt: " \o ErrorText(error))

\* try { ... } catch (error) { return ... } of the prompt-get handler
PromptTryCatch(block) ==
  IF block.kind = "throw" THEN Return(PromptCatch(block.value)) ELSE block

\* the responses of the resource-read handler
ReadSuccess(content) == [t |-> "object", contents |-> Array(<<content>>)]
ReadFailure(errorMessage) ==
  [t |-> "object", contents |-> Array(<<>>), isError |-> Bool(TRUE),
   errorMessage |-> errorMessage]

\* result.errorMessage || `Resource not found: ${uri}`
ReportedMessage(result, uri) ==
  IF Truthy(result.errorMessage) THEN result.errorMessage
  ELSE Str("Resource not found: " \o uri)

\* the statements of the resource-read handler after its await, for the
\* value the promise of readResource was fulfilled with
ReadAfterAwait(uri, result) ==
  IF result.isError \/ ~Truthy(result.content)
  THEN ReadFailure(ReportedMessage(result, uri))
  ELSE ReadSuccess(result.content)

\* the catch block of the resource-read handler
ReadCatch(error) ==
  ReadFailure(Str("Error reading resource: " \o ErrorText(error)))

\* try { ... } catch (error) { return ... } of the resource-read handler
ReadTryCatch(block) ==
  IF block.kind = "throw" THEN Return(ReadCatch(block.value)) ELSE block

IdleRequest ==
  [pc |-> "idle", method |-> "none", name |-> "", args |-> Undefined,
   read |-> "", regAtCall |-> 0, handler |-> Undefined, calls |-> 0,
   passed |-> None, outcome |-> None, settled |-> "pending",
   response |-> None]

\* a request that has ended: the promise of the request handler is
\* fulfilled with the response returned, or rejected with what was thrown
EndedRequest(rq, calls, passed, outcome, completion) ==
  [rq EXCEPT !.pc = "done", !.calls = calls, !.passed = passed,
             !.outcome = outcome,
             !.settled = IF completion.kind = "return" THEN "fulfilled"
                         ELSE "rejected",
             !.response = completion.value]

\* the tool-call handler up to its await, or to its end when it does not
\* get that far; sync is how the call handler(args || {}) itself ends
callToolRequest(q, name, args, sync) ==
  /\ requests[q].pc = "idle"
  /\ LET handler == getToolHandler(name)
         passed == AdapterArgs(args)
         rq == [requests[q] EXCEPT !.method = "tools/call", !.name = name,
                                   !.args = args, !.handler = handler,
                                   !.regAtCall = LatestReg("tool", name)]
     IN requests' = [requests EXCEPT ![q] =
          IF ~Truthy(handler)
          THEN EndedRequest(rq, 0, None, None,
                 ToolTryCatch(Throw(ErrorObj("Unknown tool: " \o name))))
          ELSE IF ~Callable(handler)
          THEN EndedRequest(rq, 0, None, None,
                 ToolTryCatch(Throw(TypeError("handler is not a function"))))
          ELSE LET now == IF handler.t = "builtin"
                          THEN BuiltinOutcome(handler, passed)
                          ELSE sync
               IN IF now.how = "throw"
                  THEN EndedRequest(rq, 1, passed, now,
                                    ToolTryCatch(Throw(now.value)))
                  ELSE [rq EXCEPT !.pc = "awaiting", !.calls = 1,
                                  !.passed = passed,
                                  !.outcome = IF handler.t = "builtin"
                                              THEN now ELSE None]]
  /\ UNCHANGED <<registryVars, regCount, lastReg, latest, reads>>

\* the tool handler's promise settles and the tool-call handler runs to its
\* end: return await handler(...)
toolHandlerSettles(q, o) ==
  /\ requests[q].pc = "awaiting"
  /\ requests[q].method = "tools/call"
  /\ LET rq == requests[q]
         outcome == IF rq.handler.t = "builtin" THEN rq.outcome ELSE o
     IN requests' = [requests EXCEPT ![q] =
          EndedRequest(rq, rq.calls, rq.passed, outcome,
                       ToolTryCatch(IF outcome.how = "resolve"
                                    THEN Return(outcome.value)
                                    ELSE Throw(outcome.value)))]
  /\ UNCHANGED <<registryVars, regCount, lastReg, latest, reads>>

\* the prompt-get handler; it has no await, so it runs to its end at once;
\* how is how the call handler(args || {}) ends
getPromptRequest(q, name, args, how) ==
  /\ requests[q].pc = "idle"
  /\ LET handler == getPromptHandler(name)
         passed == AdapterArgs(args)
         rq == [requests[q] EXCEPT !.method = "prompts/get", !.name = name,
                                   !.args = args, !.handler = handler,
                                   !.regAtCall = LatestReg("prompt", name)]
     IN requests' = [requests EXCEPT ![q] =
          IF ~Truthy(handler)
          THEN EndedRequest(rq, 0, None, None,
                 Return(PromptFailure("Prompt not found: " \o name)))
          ELSE IF ~Callable(handler)
          THEN EndedRequest(rq, 0, None, None,
                 PromptTryCatch(Throw(TypeError("handler is not a function"))))
          ELSE LET now == IF handler.t = "builtin"
                          THEN BuiltinOutcome(handler, passed)
                          ELSE how
               IN EndedRequest(rq, 1, passed, now,
                    PromptTryCatch(IF now.how = "throw"
                                   THEN Throw(now.value)
                                   ELSE Return(PromptResponse(now.value))))]
  /\ UNCHANGED <<registryVars, regCount, lastReg, latest, reads>>

\* a variant that hands the parameters of the request on to readResource
readResourceRequestWithArguments(q, r, uri, sync) ==
  /\ requests[q].pc = "idle"
  /\ readResourceCall(r, uri, ArgsRequired, sync)
  /\ requests' = [requests EXCEPT ![q] =
       [@ EXCEPT !.pc = "awaiting", !.method = "resources/read",
                 !.name = uri, !.read = r,
                 !.regAtCall = LatestReg("resource", uri)]]

\* the resource-read handler up to its await: it calls readResource(uri),
\* without args, as the call r
readResourceRequest(q, r, uri, sync) ==
  /\ requests[q].pc = "idle"
  /\ readResourceCall(r, uri, ArgsOmitted, sync)
  /\ requests' = [requests EXCEPT ![q] =
       [@ EXCEPT !.pc = "awaiting", !.method = "resources/read",
                 !.name = uri, !.read = r,
                 !.regAtCall = LatestReg("resource", uri)]]

\* the promise of readResource has settled and the resource-read handler
\* runs to its end
readResourceRequestReturns(q) ==
  /\ requests[q].pc = "awaiting"
  /\ requests[q].method = "resources/read"
  /\ reads[requests[q].read].pc = "done"
  /\ LET rq == requests[q]
         rd == reads[rq.read]
     IN requests' = [requests EXCEPT ![q] =
          EndedRequest(rq, rd.calls, rd.passed, rd.outcome,
                       ReadTryCatch(IF rd.settled = "fulfilled"
                                    THEN Return(ReadAfterAwait(rq.name, rd.result))
                                    ELSE Throw(rd.result)))]
  /\ UNCHANGED <<registryVars, regCount, lastReg, latest, reads>>

(***************************************************************************)
(* Payload objects and overlapping calls.  readResource writes the uri     *)
(* into the object the handler returned, so a handler that returns one     *)
(* object more than once (a cached or module-level envelope) returns it as *)
(* an earlier call left it.                                                *)
(***************************************************************************)
\* the payload objects that handlers keep and return again
PayloadIds == {"p1", "p2"}

\* what such an object holds when its handler creates it
MadePayloads ==
  {Envelope(Undefined, Str("hello"), Undefined),
   Envelope(Undefined, Undefined, Undefined),
   Envelope(Str("own://uri"), Str("hello"), Undefined)}

\* an object: made is what it held when it was created, a history field;
\* now is what it holds
Payload(made, now) == [made |-> made, now |-> now]

NotObserved == [startedAt |-> 0, endedAt |-> 0, with |-> {}, payload |-> ""]

\* the keys of the runs with overlapping calls: a uriTemplate string, a
\* concrete uri that its pattern matches, and the prototype key
ConcurrentKeys == {"res://{id}", "res://a", "__proto__"}

\* a variant that writes the uri whatever the error flag says
PayloadAfterIgnoringFlag(response, uri) == StampUri(response.data, uri)

\* a variant that checks text and blob before it writes the uri
PayloadAfterCheckFirst(response, uri) ==
  IF Truthy(Field(response, "isError")) \/ MissingTextAndBlob(response.data)
  THEN response.data
  ELSE StampUri(response.data, uri)

\* what the object response.data holds after readResource has run on it:
\* if (response.isError) return ...; content = response.data;
\* if (!content.uri) content.uri = uri; -- before the text/blob check
PayloadAfter(response, uri) ==
  IF Truthy(Field(response, "isError")) THEN response.data
  ELSE StampUri(response.data, uri)

\* registerResource, with what it overwrote recorded
registerResourceObserved(form, k) ==
  /\ registerResource(form, k)
  /\ replaced' = [key |-> k, form |-> form, was |-> getResourceByUri(k),
                  stored |-> Cardinality(Values(resources))]
  /\ UNCHANGED <<requests, payloads, observed>>

\* readResource(uri) up to its await, with the moment it began recorded
readResourceObserved(r, uri) ==
  /\ readResourceCall(r, uri, ArgsOmitted, ReturnsPromise)
  /\ observed' = [observed EXCEPT ![r] =
       [startedAt |-> regCount,
        endedAt |-> IF reads'[r].pc = "done" THEN regCount ELSE 0,
        with |-> {x \in ReadIds \ {r} : reads[x].pc = "awaiting"},
        payload |-> ""]]
  /\ UNCHANGED <<requests, payloads, replaced>>

\* the handler's promise is fulfilled with { isError: flag, data: p }, p an
\* object the handler keeps: created now, holding made, when it does not
\* exist yet; readResource runs to its end on that object
handlerReturnsPayload(r, p, made, flag) ==
  /\ reads[r].pc = "awaiting"
  /\ reads[r].handler.t = "fn"
  /\ LET obj == IF payloads[p] = None THEN Payload(made, made) ELSE payloads[p]
         response ==
           Response(flag,
                    IF Truthy(flag) THEN Str("Simulated handler error")
                    ELSE Undefined,
                    obj.now)
     IN /\ handlerSettles(r, Outcome("resolve", response))
        /\ payloads' = [payloads EXCEPT ![p] =
             Payload(obj.made, PayloadAfter(response, reads[r].uri))]
        /\ observed' = [observed EXCEPT ![r].endedAt = regCount,
                                        ![r].payload = p]
  /\ UNCHANGED <<requests, replaced>>


(***************************************************************************)
(* Specifications.                                                         *)
(***************************************************************************)
Init ==
  /\ tools = EmptyObject /\ toolHandlers = EmptyObject
  /\ prompts = EmptyObject /\ promptHandlers = EmptyObject
  /\ resources = EmptyObject /\ resourceHandlers = EmptyObject
  /\ regCount = 0
  /\ lastReg = NoReg
  /\ latest = [p \in {} |-> 0]
  /\ reads = [r \in ReadIds |-> IdleRead]
  /\ requests = [q \in RequestIds |-> IdleRequest]
  /\ payloads = [p \in PayloadIds |-> None]
  /\ observed = [r \in ReadIds |-> NotObserved]
  /\ replaced = None

\* the resource registry and one caller of readResource
Next ==
  \/ /\ \E form \in {"uri", "uriTemplate"}, k \in Keys :
          registerResource(form, k)
     /\ UNCHANGED <<requests, sharedVars>>
  \/ /\ \E uri \in Keys, args \in ArgsGiven \cup {ArgsOmitted},
           sync \in SyncThrows \cup {ReturnsPromise} :
          readResourceCall("r1", uri, args, sync)
     /\ UNCHANGED <<requests, sharedVars>>
  \/ /\ \E o \in AsyncOutcomes : handlerSettles("r1", o)
     /\ UNCHANGED <<requests, sharedVars>>

Spec == Init /\ [][Next]_vars

\* the three registries with every register* function, and one readResource
\* call whose handler answers with a plain text envelope
NextRegistry ==
  \/ /\ \E k \in Keys : registerTool(k)
     /\ UNCHANGED <<requests, sharedVars>>
  \/ /\ \E k \in Keys : registerPrompt(k)
     /\ UNCHANGED <<requests, sharedVars>>
  \/ /\ \E form \in {"uri", "uriTemplate"}, k \in Keys :
          registerResource(form, k)
     /\ UNCHANGED <<requests, sharedVars>>
  \/ /\ \E uri \in Keys :
          readResourceCall("r1", uri, ArgsOmitted, ReturnsPromise)
     /\ UNCHANGED <<requests, sharedVars>>
  \/ /\ handlerSettles("r1",
          Outcome("resolve",
                  Response(Undefined, Undefined,
                           Envelope(Undefined, Str("hello"), Undefined))))
     /\ UNCHANGED <<requests, sharedVars>>

SpecRegistry == Init /\ [][NextRegistry]_vars

\* what the resource handler of a resource-read request can answer with
DispatchReadOutcomes ==
  {Outcome("resolve", Response(Undefined, Undefined, d)) :
     d \in {Envelope(Undefined, Str("hello"), Undefined),
            Envelope(Undefined, Undefined, Undefined)}}
    \cup {Outcome("resolve", Response(Bool(TRUE), m, Undefined)) :
            m \in {Undefined, Str("Simulated handler error")}}
    \cup {Outcome("reject", v) : v \in Thrown}

\* the three registries and one request at a time to the dispatch adapter
NextDispatch ==
  \/ /\ \E k \in Keys : registerTool(k)
     /\ UNCHANGED <<requests, sharedVars>>
  \/ /\ \E k \in Keys : registerPrompt(k)
     /\ UNCHANGED <<requests, sharedVars>>
  \/ /\ \E form \in {"uri", "uriTemplate"}, k \in Keys :
          registerResource(form, k)
     /\ UNCHANGED <<requests, sharedVars>>
  \/ /\ \E name \in Keys, args \in {ArgsOmitted, ArgsA1},
           sync \in SyncThrows \cup {ReturnsPromise} :
          callToolRequest("q1", name, args, sync)
     /\ UNCHANGED sharedVars
  \/ /\ \E o \in ToolOutcomes : toolHandlerSettles("q1", o)
     /\ UNCHANGED sharedVars
  \/ /\ \E name \in Keys, args \in {ArgsOmitted, ArgsA1},
           how \in PromptOutcomes :
          getPromptRequest("q1", name, args, how)
     /\ UNCHANGED sharedVars
  \/ /\ \E uri \in Keys, sync \in SyncThrows \cup {ReturnsPromise} :
          readResourceRequest("q1", "r1", uri, sync)
     /\ UNCHANGED sharedVars
  \/ /\ \E o \in DispatchReadOutcomes : handlerSettles("r1", o)
     /\ UNCHANGED <<requests, sharedVars>>
  \/ /\ \E which \in RequiringHandlers : requiringHandlerSettles("r1", which)
     /\ UNCHANGED <<requests, sharedVars>>
  \/ /\ readResourceRequestReturns("q1")
     /\ UNCHANGED sharedVars

SpecDispatch == Init /\ [][NextDispatch]_vars

\* the three registries and one readResource call, with register* calls
\* made while the call is suspended on its handler
NextConcurrent ==
  \/ /\ \E k \in ConcurrentKeys : registerTool(k)
     /\ UNCHANGED <<requests, sharedVars>>
  \/ /\ \E k \in ConcurrentKeys : registerPrompt(k)
     /\ UNCHANGED <<requests, sharedVars>>
  \/ \E form \in {"uri", "uriTemplate"}, k \in ConcurrentKeys :
       registerResourceObserved(form, k)
  \/ \E uri \in ConcurrentKeys : readResourceObserved("r1", uri)
  \/ \E made \in MadePayloads, flag \in {Undefined, Bool(TRUE)} :
       handlerReturnsPayload("r1", "p1", made, flag)

SpecConcurrent == Init /\ [][NextConcurrent]_vars

\* the resource registry, two readResource calls that may overlap, and
\* handlers that return payload objects they keep
NextShared ==
  \/ \E form \in {"uri", "uriTemplate"}, k \in {"res://{id}", "res://a"} :
       registerResourceObserved(form, k)
  \/ \E r \in ReadIds, uri \in {"res://{id}", "res://a"} :
       readResourceObserved(r, uri)
  \/ \E r \in ReadIds, p \in PayloadIds, made \in MadePayloads,
        flag \in {Undefined, Bool(TRUE)} :
       handlerReturnsPayload(r, p, made, flag)

SpecShared == Init /\ [][NextShared]_vars

(***************************************************************************)
(* Properties.                                                             *)
(***************************************************************************)
DescMap(kind) ==
  CASE kind = "tool" -> tools [] kind = "prompt" -> prompts [] OTHER -> resources
HandlerMap(kind) ==
  CASE kind = "tool" -> toolHandlers
    [] kind = "prompt" -> promptHandlers
    [] OTHER -> resourceHandlers
\* getAllTools / getAllPrompts / getAllResources and getResourceTemplates
Enumeration(kind) ==
  CASE kind = "tool" -> getAllTools
    [] kind = "prompt" -> getAllPrompts
    [] OTHER -> getAllResources \cup getResourceTemplates
\* getToolByName / getPromptByName / getResourceByUri
GetByKey(kind, k) ==
  CASE kind = "tool" -> getToolByName(k)
    [] kind = "prompt" -> getPromptByName(k)
    [] OTHER -> getResourceByUri(k)
GetHandler(kind, k) ==
  CASE kind = "tool" -> getToolHandler(k)
    [] kind = "prompt" -> getPromptHandler(k)
    [] OTHER -> getResourceHandler(k)

\* C1 (as claimed): no register call raises an error, and for every kind and
\* key K that has been registered, getByKey(K) and getHandler(K) are the
\* descriptor and handler of the latest register call for K, and the
\* enumeration of the kind has exactly one entry under K.
C1_LastWriteWins ==
  /\ lastReg.kind # "none" => ~lastReg.threw
  /\ \A kind \in Kinds, k \in Keys :
       LatestReg(kind, k) # 0
       => /\ GetByKey(kind, k).t = "desc"
          /\ GetByKey(kind, k).reg = LatestReg(kind, k)
          /\ GetByKey(kind, k).key = k
          /\ GetHandler(kind, k) = Handler(kind, LatestReg(kind, k))
          /\ Cardinality({d \in Enumeration(kind) : d.key = k}) = 1

\* C2 (as claimed): in every state the descriptor map and the handler map of
\* each kind hold the same keys, and under every key the descriptor and the
\* handler of one and the same register call; the prototype slot that the
\* key "__proto__" writes is held to the same standard.
C2_RegisteredTogether ==
  \A kind \in Kinds :
    /\ OwnKeys(DescMap(kind)) = OwnKeys(HandlerMap(kind))
    /\ \A k \in OwnKeys(DescMap(kind)) \cap OwnKeys(HandlerMap(kind)) :
         DescMap(kind).own[k].reg = HandlerMap(kind).own[k].reg
    /\ (DescMap(kind).proto.t = "desc") <=> (HandlerMap(kind).proto.t = "fn")
    /\ DescMap(kind).proto.t = "desc" /\ HandlerMap(kind).proto.t = "fn"
       => DescMap(kind).proto.reg = HandlerMap(kind).proto.reg

\* the handler of an ended call was a registered handler whose promise was
\* fulfilled with a response object that carries no error flag
ResolvedWithoutError(rd) ==
  /\ rd.pc = "done"
  /\ rd.handler.t = "fn"
  /\ rd.outcome.how = "resolve"
  /\ rd.outcome.value.t = "object"
  /\ ~Truthy(rd.outcome.value.isError)

\* C3: every readResource call that has ended has fulfilled its promise
\* (it did not throw or reject) with a value whose isError is a boolean,
\* whatever the uri, the args, the registry and the handler's behaviour.
C3_NeverThrows ==
  \A r \in ReadIds :
    reads[r].pc = "done"
    => /\ reads[r].settled = "fulfilled"
       /\ reads[r].result.isError \in BOOLEAN

\* a call whose handler returned a rejected promise has ended with an error
C3_Witness ==
  \E r \in ReadIds :
    /\ reads[r].pc = "done"
    /\ reads[r].handler.t = "fn"
    /\ reads[r].outcome.how = "reject"
    /\ reads[r].settled = "fulfilled"
    /\ reads[r].result.isError = TRUE

\* C4 (as claimed): a readResource call for a uri under which no resource
\* was ever registered ends with "Resource not found: <uri>", without
\* content and without having invoked anything.
C4_NotFound ==
  \A r \in ReadIds :
    reads[r].pc = "done" /\ LatestReg("resource", reads[r].uri) = 0
    => /\ reads[r].result =
            Result(TRUE, Str("Resource not found: " \o reads[r].uri), Undefined)
       /\ reads[r].calls = 0

\* C5 (as claimed): when a registered handler returns, without an error flag,
\* an envelope in which text or blob is present, the call ends with
\* isError = false and that envelope as content, its uri the envelope's own
\* when it has one and the requested uri otherwise.
C5_SuccessRoundTrip ==
  \A r \in ReadIds :
    LET rd == reads[r] IN
    (/\ ResolvedWithoutError(rd)
     /\ rd.outcome.value.data \in Envelopes
     /\ (rd.outcome.value.data.text # Undefined
           \/ rd.outcome.value.data.blob # Undefined))
    => rd.result =
         Result(FALSE, Undefined,
                [rd.outcome.value.data EXCEPT
                   !.uri = IF rd.outcome.value.data.uri # Undefined
                           THEN rd.outcome.value.data.uri
                           ELSE Str(rd.uri)])

\* C6: a result with isError = false carries a content in which text or blob
\* is present, and an envelope that has neither text nor blob is answered
\* with "Invalid resource content: missing both text and blob for <uri>" and
\* no content.
C6_NoEmptyEnvelope ==
  \A r \in ReadIds :
    LET rd == reads[r] IN
    /\ rd.pc = "done" /\ rd.settled = "fulfilled" /\ rd.result.isError = FALSE
       => /\ rd.result.content.t = "object"
          /\ (rd.result.content.text # Undefined
                \/ rd.result.content.blob # Undefined)
    /\ (/\ ResolvedWithoutError(rd)
        /\ rd.outcome.value.data \in Envelopes
        /\ rd.outcome.value.data.text = Undefined
        /\ rd.outcome.value.data.blob = Undefined)
       => rd.result =
            Result(TRUE,
                   Str("Invalid resource content: missing both text and blob for "
                       \o rd.uri),
                   Undefined)

\* a handler returned an envelope with a uri and nothing else
C6_Witness ==
  \E r \in ReadIds :
    /\ ResolvedWithoutError(reads[r])
    /\ reads[r].outcome.value.data =
         Envelope(Str("own://uri"), Undefined, Undefined)
    /\ reads[r].result.isError = TRUE

\* C7 (as claimed): the content of every result with isError = false has a
\* uri and exactly one of text and blob populated.
C7_ExactlyOne ==
  \A r \in ReadIds :
    LET rd == reads[r] IN
    rd.pc = "done" /\ rd.settled = "fulfilled" /\ rd.result.isError = FALSE
    => /\ Truthy(rd.result.content.uri)
       /\ Truthy(rd.result.content.text) # Truthy(rd.result.content.blob)

\* C7 (amended): the content of every result with isError = false has a uri
\* and at least one of text and blob populated; both may be.
C7_AtLeastOne ==
  \A r \in ReadIds :
    LET rd == reads[r] IN
    rd.pc = "done" /\ rd.settled = "fulfilled" /\ rd.result.isError = FALSE
    => /\ rd.result.content.t = "object"
       /\ Truthy(rd.result.content.uri)
       /\ (Truthy(rd.result.content.text) \/ Truthy(rd.result.content.blob))

\* a handler's envelope without uri and with both text and blob was returned
C7_Witness ==
  \E r \in ReadIds :
    /\ ResolvedWithoutError(reads[r])
    /\ reads[r].outcome.value.data = Envelope(Undefined, Str("hello"), Str("AAEC"))
    /\ reads[r].result.isError = FALSE
    /\ reads[r].result.content = Envelope(Str(reads[r].uri), Str("hello"), Str("AAEC"))

\* the handler of an ended call was a registered handler that threw or
\* whose promise was rejected
HandlerThrew(rd) ==
  /\ rd.pc = "done"
  /\ rd.handler.t = "fn"
  /\ rd.outcome.how \in {"throw", "reject"}

\* the thrown value has a non-empty message property
CarriesMessage(v) == v.t \in {"Error", "plainObject"} /\ v.message # ""

HandlerReportedError(rd) ==
  /\ rd.pc = "done"
  /\ rd.handler.t = "fn"
  /\ rd.outcome.how = "resolve"
  /\ rd.outcome.value.t = "object"
  /\ rd.outcome.value.isError = Bool(TRUE)

\* C9 (as claimed): when the handler answers isError = true with an
\* errorMessage m, the call ends with errorMessage m and no content; "Error
\* reading resource: <uri>" stands in only when the handler gave no message.
C9_HandlerMessageVerbatim ==
  \A r \in ReadIds :
    LET rd == reads[r] IN
    HandlerReportedError(rd)
    => rd.result =
         Result(TRUE,
                IF rd.outcome.value.errorMessage # Undefined
                THEN rd.outcome.value.errorMessage
                ELSE Str("Error reading resource: " \o rd.uri),
                Undefined)

\* C9 (amended): a non-empty errorMessage is passed on as it is; "Error
\* reading resource: <uri>" stands in when the handler gave no message or an
\* empty one.
C9_HandlerMessageOrFallback ==
  \A r \in ReadIds :
    LET rd == reads[r] IN
    HandlerReportedError(rd)
    => rd.result =
         Result(TRUE,
                IF rd.outcome.value.errorMessage \notin {Undefined, Str("")}
                THEN rd.outcome.value.errorMessage
                ELSE Str("Error reading resource: " \o rd.uri),
                Undefined)

\* a handler answered isError = true with the empty string as errorMessage
C9_Witness ==
  \E r \in ReadIds :
    /\ HandlerReportedError(reads[r])
    /\ reads[r].outcome.value.errorMessage = Str("")
    /\ reads[r].result.errorMessage =
         Str("Error reading resource: " \o reads[r].uri)

\* C10: a readResource call for a uri that is registered when the call is
\* made invokes the handler registered under it at that moment, once, with
\* the caller's args when given and with an empty object of its own, not
\* undefined, when args is omitted.
C10_HandlerInvokedOnce ==
  \A r \in ReadIds :
    LET rd == reads[r] IN
    rd.pc \in {"awaiting", "done"} /\ rd.regAtCall # 0
    => /\ rd.handler = Handler("resource", rd.regAtCall)
       /\ rd.calls = 1
       /\ rd.passed = IF rd.args \in ArgsGiven THEN rd.args ELSE FreshEmptyArgs
       /\ rd.passed.t = "object"

\* a call without args has invoked the registered handler
C10_Witness ==
  \E r \in ReadIds :
    /\ reads[r].pc = "done"
    /\ reads[r].regAtCall # 0
    /\ reads[r].args = ArgsOmitted
    /\ reads[r].calls = 1
    /\ reads[r].passed = FreshEmptyArgs

\* C11: the three registries are independent: a register call of one kind
\* leaves the descriptor map and the handler map of the other two kinds as
\* they were, and when one key has been registered in two kinds each
\* kind's handler lookup answers with the handler registered in that kind.
C11_Independent ==
  /\ [](\A kind \in Kinds, other \in Kinds, k \in Keys :
          kind # other /\ LatestReg(kind, k) # 0 /\ LatestReg(other, k) # 0
          => /\ GetHandler(kind, k) = Handler(kind, LatestReg(kind, k))
             /\ GetHandler(other, k) = Handler(other, LatestReg(other, k)))
  /\ [][\A kind \in Kinds :
          regCount' # regCount /\ lastReg'.kind # kind
          => /\ DescMap(kind)' = DescMap(kind)
             /\ HandlerMap(kind)' = HandlerMap(kind)]_vars

\* a tool and a prompt are registered under one key and each lookup answers
\* with its own kind's handler
C11_Witness ==
  \E k \in Keys :
    /\ LatestReg("tool", k) # 0 /\ LatestReg("prompt", k) # 0
    /\ getToolHandler(k) = Handler("tool", LatestReg("tool", k))
    /\ getPromptHandler(k) = Handler("prompt", LatestReg("prompt", k))

\* C12 (as claimed): getAllTools() and getAllPrompts() hold exactly one
\* descriptor per distinct registered key, so as many descriptors as there
\* are registered keys, each the descriptor of the latest register call for
\* its key; with nothing registered they are empty.
C12_OnePerKey ==
  \A kind \in {"tool", "prompt"} :
    LET all == IF kind = "tool" THEN getAllTools ELSE getAllPrompts
        registered == {k \in Keys : LatestReg(kind, k) # 0}
    IN /\ Cardinality(all) = Cardinality(registered)
       /\ \A k \in registered :
            {d \in all : d.key = k} =
              {Descriptor(kind, "name", k, LatestReg(kind, k))}
       /\ \A d \in all : d.key \in registered
       /\ registered = {} => all = {}

\* the resource descriptors the registry holds, under whatever key
StoredResources ==
  Values(resources)
    \cup (IF resources.proto.t = "desc" THEN {resources.proto} ELSE {})

\* C13 (as claimed): a resource registered with a literal uri is in
\* getAllResources() and not in getResourceTemplates(), one registered with
\* a uriTemplate is in getResourceTemplates() and not in getAllResources(),
\* and the two enumerations together hold every stored resource descriptor.
C13_Partition ==
  /\ \A k \in Keys :
       LatestReg("resource", k) # 0
       => LET d == getResourceByUri(k) IN
          /\ d.t = "desc"
          /\ d.form = "uri"
             => d \in getAllResources /\ d \notin getResourceTemplates
          /\ d.form = "uriTemplate"
             => d \in getResourceTemplates /\ d \notin getAllResources
  /\ getAllResources \cap getResourceTemplates = {}
  /\ StoredResources = getAllResources \cup getResourceTemplates

\* no register call of the kind was ever made with key k: the first
\* assignment of every such call stores its descriptor under k
NeverRegistered(kind, k) ==
  /\ LatestReg(kind, k) = 0
  /\ k \notin OwnKeys(DescMap(kind))
  /\ ~(k = "__proto__" /\ DescMap(kind).proto.t = "desc")

\* C14 (as claimed): for a key that was never registered in a kind, the
\* kind's handler lookup and descriptor lookup return the absent value.
C14_AbsentWhenNeverRegistered ==
  \A kind \in Kinds, k \in Keys :
    NeverRegistered(kind, k)
    => /\ GetHandler(kind, k) = Undefined
       /\ kind # "tool" => GetByKey(kind, k) = Undefined

\* a tool-call request that has ended
ToolCallEnded(rq) == rq.pc = "done" /\ rq.method = "tools/call"

\* C15 (as claimed): a tool-call request for a name under which no handler
\* is registered is answered, not rejected, with isError = true and one
\* text item that says "Unknown tool: <name>", and nothing is invoked.
C15_UnknownTool ==
  \A q \in RequestIds :
    LET rq == requests[q] IN
    ToolCallEnded(rq) /\ rq.regAtCall = 0
    => /\ rq.settled = "fulfilled"
       /\ rq.response =
            ToolResult("Error: Unknown tool: " \o rq.name, Bool(TRUE))
       /\ rq.calls = 0

\* the handler of an ended tool-call request was a registered handler that
\* threw or whose promise was rejected
ToolHandlerThrew(rq) ==
  /\ ToolCallEnded(rq)
  /\ rq.handler.t = "fn"
  /\ rq.outcome.how \in {"throw", "reject"}

C17_ResultUnchanged ==
  \A q \in RequestIds :
    LET rq == requests[q] IN
    rq.pc \in {"awaiting", "done"} /\ rq.method = "tools/call"
      /\ rq.regAtCall # 0
    => /\ rq.handler = Handler("tool", rq.regAtCall)
       /\ rq.calls = 1
       /\ rq.passed = IF rq.args \in ArgsGiven THEN rq.args
                      ELSE FreshEmptyObject
       /\ rq.passed.t = "object"
       /\ rq.pc = "done" /\ rq.outcome.how = "resolve"
          => /\ rq.settled = "fulfilled"
             /\ rq.response = rq.outcome.value

\* a request without arguments was answered with the result that the
\* registered handler flagged as an error itself
C17_Witness ==
  \E q \in RequestIds :
    /\ ToolCallEnded(requests[q])
    /\ requests[q].regAtCall # 0
    /\ requests[q].args = ArgsOmitted
    /\ requests[q].calls = 1
    /\ requests[q].passed = FreshEmptyObject
    /\ requests[q].outcome =
         Outcome("resolve", ToolResult("failed inside the tool", Bool(TRUE)))
    /\ requests[q].response = ToolResult("failed inside the tool", Bool(TRUE))

\* C18 (as claimed): a resource-read request is answered with
\* { contents: [content] } exactly when readResource returned isError =
\* false with a content, and otherwise with { contents: [], isError: true,
\* errorMessage } where errorMessage is the one readResource reported.
C18_ReadPassedOn ==
  \A q \in RequestIds :
    LET rq == requests[q] IN
    rq.pc = "done" /\ rq.method = "resources/read"
    => LET result == reads[rq.read].result IN
       /\ rq.settled = "fulfilled"
       /\ reads[rq.read].settled = "fulfilled"
       /\ rq.response =
            IF result.isError = FALSE /\ Truthy(result.content)
            THEN ReadSuccess(result.content)
            ELSE ReadFailure(result.errorMessage)

\* C19 (as claimed): a prompt-get request for a name under which no handler
\* is registered is answered with { messages: [], isError: true,
\* errorMessage } and invokes nothing; otherwise it invokes the registered
\* handler once with the request's arguments, or an empty object, and is
\* answered with { messages: what the handler returned }, or, when the
\* handler throws, with { messages: [], isError: true, errorMessage } whose
\* errorMessage carries the message of the thrown Error or the thrown
\* string; the request is never rejected.
C19_PromptGet ==
  \A q \in RequestIds :
    LET rq == requests[q]
        v == rq.outcome.value
    IN rq.pc = "done" /\ rq.method = "prompts/get"
       => /\ rq.settled = "fulfilled"
          /\ rq.regAtCall = 0
             => /\ rq.calls = 0
                /\ rq.response = PromptFailure("Prompt not found: " \o rq.name)
          /\ rq.regAtCall # 0
             => /\ rq.calls = 1
                /\ rq.handler = Handler("prompt", rq.regAtCall)
                /\ rq.passed = IF rq.args \in ArgsGiven THEN rq.args
                               ELSE FreshEmptyObject
                /\ rq.outcome.how = "return"
                   => rq.response = PromptResponse(v)
                /\ rq.outcome.how = "throw"
                   => /\ rq.response.t = "object"
                      /\ rq.response.messages = Array(<<>>)
                      /\ rq.response.isError = Bool(TRUE)
                      /\ v.t = "Error"
                         => rq.response.errorMessage =
                              Str("Error generating prompt: " \o v.message)
                      /\ v.t = "string"
                         => rq.response.errorMessage =
                              Str("Error generating prompt: " \o v.v)

\* the message text of an error response of the dispatch adapter
MessageText(rq) ==
  IF rq.method = "tools/call"
  THEN Str(rq.response.content.items[1].text)
  ELSE rq.response.errorMessage

\* C20 (as claimed): every readResource result with isError = true has a
\* non-empty errorMessage, and every error response of the dispatch adapter
\* to a tool-call, resource-read or prompt-get request carries a non-empty
\* message text; no call and no request is rejected.
C20_NonEmptyMessage ==
  /\ \A r \in ReadIds :
       reads[r].pc = "done"
       => /\ reads[r].settled = "fulfilled"
          /\ reads[r].result.isError = TRUE
             => Truthy(reads[r].result.errorMessage)
  /\ \A q \in RequestIds :
       requests[q].pc = "done"
       => /\ requests[q].settled = "fulfilled"
          /\ Truthy(Field(requests[q].response, "isError"))
             => Truthy(MessageText(requests[q]))

\* an ended call whose handler returned, without error flag, an envelope
\* without uri, and that ended with that envelope as content
BackFilled(rd) ==
  /\ ResolvedWithoutError(rd)
  /\ rd.outcome.value.data \in Envelopes
  /\ ~Truthy(rd.outcome.value.data.uri)
  /\ rd.settled = "fulfilled"
  /\ rd.result.isError = FALSE

\* C21 (as claimed): a uri that readResource back-fills is the uri the
\* caller requested and is never the uriTemplate string under which a
\* resource template is registered.
C21_NeverTemplateString ==
  \A r \in ReadIds :
    BackFilled(reads[r])
    => /\ reads[r].result.content.uri = Str(reads[r].uri)
       /\ \A d \in StoredResources :
            d.form = "uriTemplate"
            => reads[r].result.content.uri # Str(d.key)

\* C21 (amended): a uri that readResource back-fills is the uri the caller
\* requested, which is the key under which the invoked handler was
\* registered, be that a literal uri or a uriTemplate string.
C21_StampIsRequestedUri ==
  \A r \in ReadIds :
    BackFilled(reads[r])
    => /\ reads[r].result.content.uri = Str(reads[r].uri)
       /\ \A d \in StoredResources :
            d.reg = reads[r].regAtCall
            => reads[r].result.content.uri = Str(d.key)

\* the handler of a resource template returned an envelope without uri and
\* the content carries the template string as uri
C21_Witness ==
  \E r \in ReadIds :
    /\ BackFilled(reads[r])
    /\ \E d \in StoredResources :
         /\ d.form = "uriTemplate"
         /\ d.reg = reads[r].regAtCall
         /\ reads[r].handler = Handler("resource", d.reg)
         /\ reads[r].result.content.uri = Str(d.key)

\* the result of a call run on its own: a function of its uri and of what
\* its handler invocation returned or threw
Alone(rd) == TryCatch(rd.uri, TryBlock(rd.uri, rd.outcome)).value

\* C22: a register call of any kind for a key other than the uri of a
\* readResource call that is suspended on its handler leaves that call as
\* it is, so the call ends with the result it yields on its own; and the
\* register call changes the two maps of its kind exactly as it does with
\* no call in flight.
C22_DifferentKeyIndependent ==
  /\ [][\A r \in ReadIds :
          (/\ reads[r].pc = "awaiting"
           /\ regCount' # regCount
           /\ lastReg'.key # reads[r].uri)
          => /\ reads'[r] = reads[r]
             /\ \E kind \in Kinds, k \in ConcurrentKeys,
                   form \in {"name", "uri", "uriTemplate"} :
                  LET n == regCount + 1
                      after == RegisterInto(DescMap(kind), HandlerMap(kind), k,
                                            Descriptor(kind, form, k, n),
                                            Handler(kind, n))
                  IN /\ kind = lastReg'.kind /\ k = lastReg'.key
                     /\ DescMap(kind)' = after.descs
                     /\ HandlerMap(kind)' = after.handlers
                     /\ lastReg'.threw = after.threw]_vars
  /\ [](\A r \in ReadIds :
          reads[r].pc = "done" /\ reads[r].handler.t = "fn"
          => /\ reads[r].settled = "fulfilled"
             /\ reads[r].result = Alone(reads[r]))

\* a call has ended with a content after a register call for another key
\* was made while it was suspended
C22_Witness ==
  \E r \in ReadIds :
    /\ reads[r].pc = "done"
    /\ reads[r].handler.t = "fn"
    /\ observed[r].startedAt < observed[r].endedAt
    /\ lastReg.kind # "none"
    /\ lastReg.reg = observed[r].endedAt
    /\ lastReg.key # reads[r].uri
    /\ ~lastReg.threw
    /\ reads[r].result.isError = FALSE

\* C25: readResource resolves its handler once, before its await: a call
\* for a registered uri invokes, once, the handler registered under the uri
\* when the call began, and ends with the result of that invocation, also
\* when the uri was registered again with another handler while the call
\* was suspended.
C25_HandlerResolvedOnce ==
  \A r \in ReadIds :
    LET rd == reads[r] IN
    rd.pc \in {"awaiting", "done"} /\ rd.regAtCall # 0
    => /\ rd.handler = Handler("resource", rd.regAtCall)
       /\ rd.regAtCall <= observed[r].startedAt
       /\ rd.calls = 1
       /\ rd.pc = "done"
          => /\ rd.settled = "fulfilled"
             /\ rd.result = Alone(rd)

\* a call has ended with the content of the handler it resolved, after the
\* uri was registered again while the call was suspended
C25_Witness ==
  \E r \in ReadIds :
    /\ reads[r].pc = "done"
    /\ reads[r].regAtCall # 0
    /\ observed[r].startedAt < LatestReg("resource", reads[r].uri)
    /\ LatestReg("resource", reads[r].uri) <= observed[r].endedAt
    /\ reads[r].handler = Handler("resource", reads[r].regAtCall)
    /\ getResourceHandler(reads[r].uri) # reads[r].handler
    /\ reads[r].result.isError = FALSE

\* an ended call whose handler's promise was fulfilled with a response that
\* holds one of the payload objects
ReturnedPayload(r) ==
  /\ reads[r].pc = "done"
  /\ reads[r].handler.t = "fn"
  /\ reads[r].outcome.how = "resolve"
  /\ observed[r].payload \in PayloadIds

\* the awaits of two calls overlapped
Overlapped(r, x) == r \in observed[x].with \/ x \in observed[r].with

\* the result of the call run with no other call: its handler returns its
\* payload object as the handler made it
AloneOnMade(r) ==
  LET made == payloads[observed[r].payload].made
      alone == [reads[r] EXCEPT !.outcome.value.data = made]
  IN Alone(alone)

\* C23 (as claimed): two calls whose awaits overlap do not interfere: each
\* ends with the result it yields when run alone, whatever uris, handlers
\* and payload objects are involved.
C23_NoInterference ==
  \A r \in ReadIds, x \in ReadIds :
    (/\ r # x
     /\ Overlapped(r, x)
     /\ ReturnedPayload(r) /\ ReturnedPayload(x))
    => /\ reads[r].settled = "fulfilled"
       /\ reads[r].result = AloneOnMade(r)

\* the ended calls that returned the object p without error flag
Readers(p) ==
  {r \in ReadIds : /\ ReturnedPayload(r)
                    /\ observed[r].payload = p
                    /\ ~Truthy(reads[r].outcome.value.isError)}

\* C27: when the handler's response carries isError = true the call ends
\* with an error and without content whatever the payload holds, and the
\* payload object is left as it was: a payload object differs from what
\* its handler made only if a call returned it without error flag.
C27_ErrorFlagFirst ==
  /\ \A r \in ReadIds :
       ReturnedPayload(r) /\ Truthy(reads[r].outcome.value.isError)
       => reads[r].result =
            Result(TRUE, HandlerErrorMessage(reads[r].outcome.value, reads[r].uri),
                   Undefined)
  /\ \A p \in PayloadIds :
       payloads[p] # None /\ Readers(p) = {}
       => payloads[p].now = payloads[p].made

\* a handler flagged an error on a payload with text and without uri: the
\* call ended with the handler's message and the object has no uri
C27_Witness ==
  \E r \in ReadIds :
    /\ ReturnedPayload(r)
    /\ reads[r].outcome.value.isError = Bool(TRUE)
    /\ reads[r].outcome.value.data = Envelope(Undefined, Str("hello"), Undefined)
    /\ reads[r].result = Result(TRUE, Str("Simulated handler error"), Undefined)
    /\ payloads[observed[r].payload].now =
         Envelope(Undefined, Str("hello"), Undefined)

\* C28: readResource writes the uri into the object the handler returned,
\* before the text/blob check: once a call has returned, without error
\* flag, an object made without uri, the object carries the uri requested
\* by such a call, also when that call ended with the missing-text-and-blob
\* error; nothing else of the object changes, and the content of a call is
\* the object as it is, so a later call that returns it finds the earlier
\* uri.
C28_BackFillInPlace ==
  \A p \in PayloadIds :
    payloads[p] # None
    => LET made == payloads[p].made
           now == payloads[p].now
       IN /\ now.text = made.text /\ now.blob = made.blob
          /\ Truthy(made.uri) => now = made
          /\ Readers(p) # {} /\ ~Truthy(made.uri)
             => \E r \in Readers(p) : now.uri = Str(reads[r].uri)
          /\ \A r \in Readers(p) :
               IF MissingTextAndBlob(made)
               THEN reads[r].result =
                      Result(TRUE,
                             Str("Invalid resource content: missing both text and blob for "
                                 \o reads[r].uri),
                             Undefined)
               ELSE reads[r].result = Result(FALSE, Undefined, now)

\* a call ended with the missing-text-and-blob error and the handler's
\* object carries the uri of that call
C28_Witness ==
  \E r \in ReadIds :
    /\ ReturnedPayload(r)
    /\ r \in Readers(observed[r].payload)
    /\ payloads[observed[r].payload].made =
         Envelope(Undefined, Undefined, Undefined)
    /\ reads[r].result.isError = TRUE
    /\ payloads[observed[r].payload].now =
         Envelope(Str(reads[r].uri), Undefined, Undefined)

\* C24 (as claimed): before any register call every enumeration is empty
\* and every lookup is absent; the lookups of a key that has been
\* registered are never absent afterwards; and a step that is not a
\* register call leaves the registries as they are.
C24_StartsEmptyOnlyGrows ==
  /\ [](regCount = 0
         => \A kind \in Kinds :
              /\ Enumeration(kind) = {}
              /\ \A k \in Keys : /\ GetHandler(kind, k) = Undefined
                                  /\ GetByKey(kind, k) = Undefined)
  /\ [](\A kind \in Kinds, k \in Keys :
          LatestReg(kind, k) # 0
          => /\ GetHandler(kind, k) # Undefined
             /\ GetByKey(kind, k) # Undefined)
  /\ [][regCount' = regCount
         => UNCHANGED <<registryVars, latest>>]_vars

ReplacedOtherForm ==
  /\ lastReg.kind = "resource"
  /\ lastReg.reg = regCount
  /\ replaced # None
  /\ replaced.key = lastReg.key
  /\ replaced.was.t = "desc"
  /\ replaced.was.form # replaced.form

\* C29: literal resources and templates share one key space.  After
\* registerResource of a template under the string of a stored literal
\* resource, or of a literal under the string of a stored template, the
\* lookups of that string give the new descriptor and the new handler, the
\* earlier descriptor is in neither enumeration, the new one is in the
\* enumeration of its own form only, and the registry stores as many
\* entries as before the call.
C29_OneKeySpace ==
  ReplacedOtherForm
  => /\ getResourceByUri(replaced.key) =
          Descriptor("resource", replaced.form, replaced.key, regCount)
     /\ getResourceHandler(replaced.key) = Handler("resource", regCount)
     /\ replaced.was \notin getAllResources \cup getResourceTemplates
     /\ replaced.key \in OwnKeys(resources)
          => getResourceByUri(replaced.key) \in
               (IF replaced.form = "uri" THEN getAllResources \ getResourceTemplates
                ELSE getResourceTemplates \ getAllResources)
     /\ Cardinality(Values(resources)) = replaced.stored
     /\ Cardinality(OwnKeys(resourceHandlers)) = replaced.stored

\* a template has just been registered under the uri of a stored literal
\* resource
C29_Witness ==
  /\ ReplacedOtherForm
  /\ replaced.key = "res://a"
  /\ replaced.form = "uriTemplate"
  /\ replaced.was.form = "uri"
  /\ replaced.stored >= 1
  /\ getAllResources = {}
  /\ getResourceTemplates = {Descriptor("resource", "uriTemplate", "res://a", regCount)}

====
